---- MODULE Spec2Model ----
(***************************************************************************)
(* The synchronization engine of the backend (app/api/v1/sync.py): the     *)
(* start-sync handler sync_data with its helpers, the upload-batch handler *)
(* upload_data with the five _upsert_* functions, and the product CRUD     *)
(* handlers that modify rows locally.                                      *)
(*                                                                         *)
(* Encoding of values.                                                     *)
(*   - A timestamp is a positive integer; 0 is SQL NULL / Python None.     *)
(*     The clock `now` is advanced by every commit that writes a row's     *)
(*     updated_at or a tenant's baseline, so that these timestamps, the    *)
(*     ones the selection compares, order the commits that wrote them.     *)
(*   - A row id is a positive integer; 0 in a payload is "no id key"       *)
(*     (data.get("id") is falsy for a missing key, None and 0 alike).      *)
(*   - A string column holds "a", "b", ... or NULL; a payload key may      *)
(*     also be ABSENT (the key is not in the dict).                        *)
(*   - Every entity table is modelled with two data columns:               *)
(*       name : products.name, customers.first_name, suppliers.name,       *)
(*              supplier_orders.notes, sales.sale_number                   *)
(*       val  : products.quantity, customers.email,                        *)
(*              suppliers.contact_person, supplier_orders.tax,             *)
(*              sales.total_amount                                         *)
(*     and, for sales, the child collection `items` (one number per        *)
(*     SaleItem: its quantity).                                            *)
(***************************************************************************)
EXTENDS Integers, Sequences, FiniteSets, TLC

VARIABLES
    now,                    \* the clock: the last timestamp handed out
    db,                     \* the committed entity tables, by entity type
    pharmacy_last_sync_at,  \* Pharmacy.last_sync_at, by tenant
    sync_logs,              \* the sync_logs table, in insertion order
    runs,                   \* the start-sync requests, each with its position
    http,                   \* the requests upload_data served, each with its response
    uploads,                \* number of upload batches served
    requests                \* number of requests received

vars == <<now, db, pharmacy_last_sync_at, sync_logs, runs, http, uploads, requests>>

-----------------------------------------------------------------------------
(* Bounds of the model *)

MaxTime == 4

MaxRuns == 2

MaxRequests == 3

MaxUploads == 2

MaxRows == 2

MaxBatch == 2

-----------------------------------------------------------------------------
(* Values *)

NULL == "NULL"

ABSENT == "ABSENT"

Tenants == {1, 2}

EntityTypes == {"products", "sales", "customers", "suppliers", "orders"}

DefaultEntityTypes == <<"products", "sales", "customers", "suppliers", "orders">>

SyncDirection == {"upload", "download", "bidirectional"}

Truthy(v) == v # NULL /\ v # ABSENT

\* dict.get(key, default)
Get(v, default) == IF v = ABSENT THEN default ELSE v

\* dict.get(key): a missing key reads None
Get0(v) == IF v = ABSENT THEN NULL ELSE v

\* `x or 0` on a numeric column
Or0(v) == IF v = NULL THEN "0" ELSE v

Range(s) == {s[i] : i \in 1..Len(s)}

-----------------------------------------------------------------------------
(* Entity rows *)

\* A freshly constructed ORM object: Product(pharmacy_id=...), Sale(...), ...
NewRow(id, pharmacy_id) ==
    [id |-> id, pharmacy_id |-> pharmacy_id, sync_id |-> NULL, name |-> NULL,
     val |-> NULL, updated_at |-> 0, last_sync_at |-> 0, items |-> <<>>]

QueryBySyncIdAnyTenant(table, pharmacy_id, sync_id) ==
    LET hits == {i \in 1..Len(table) : table[i].sync_id = sync_id}
    IN IF hits = {} THEN 0 ELSE CHOOSE i \in hits : \A j \in hits : i <= j

\* the lookup by local id, were it not to filter on the tenant
QueryByIdAnyTenant(table, pharmacy_id, id) ==
    IF id \in 1..Len(table) THEN id ELSE 0

\* db.query(Model).filter(Model.pharmacy_id == pharmacy_id, Model.sync_id == sync_id).first()
\* evaluated by the database on the committed table: 0 when there is no such row
QueryBySyncId(table, pharmacy_id, sync_id) ==
    LET hits == {i \in 1..Len(table) :
                    table[i].pharmacy_id = pharmacy_id /\ table[i].sync_id = sync_id}
    IN IF hits = {} THEN 0 ELSE CHOOSE i \in hits : \A j \in hits : i <= j

\* db.query(Model).filter(Model.pharmacy_id == pharmacy_id, Model.id == id).first()
QueryById(table, pharmacy_id, id) ==
    IF id \in 1..Len(table) /\ table[id].pharmacy_id = pharmacy_id THEN id ELSE 0

\* the row object the upsert works on (the matched one, with the changes
\* pending in the session, or a new one) put back into the session
Put(cur, k, row) ==
    IF k # 0 THEN [cur EXCEPT ![k] = row] ELSE Append(cur, row)

Target(cur, k, pharmacy_id) ==
    IF k # 0 THEN cur[k] ELSE NewRow(Len(cur) + 1, pharmacy_id)

Stamp(row, t) == [row EXCEPT !.last_sync_at = t, !.updated_at = t]

\* what an _upsert_* call leaves: the rows pending in the session, and the
\* exception it raised, if any
Return(rows) == [rows |-> rows, raised |-> NULL]

Raise(rows, exception) == [rows |-> rows, raised |-> exception]

_upsert_product(table, cur, pharmacy_id, data, t) ==
    LET sync_id == Get0(data.sync_id)
        bySync  == IF Truthy(sync_id) THEN QueryBySyncId(table, pharmacy_id, sync_id) ELSE 0
        k       == IF bySync = 0 /\ data.id # 0
                   THEN QueryById(table, pharmacy_id, data.id) ELSE bySync
        product == Target(cur, k, pharmacy_id)
    IN Return(Put(cur, k, Stamp([product EXCEPT
            !.name = Get(data.name, product.name),
            !.val = Get(data.val, Or0(product.val)),
            !.sync_id = IF Truthy(sync_id) THEN sync_id ELSE product.sync_id], t)))

_upsert_customer(table, cur, pharmacy_id, data, t) ==
    LET sync_id  == Get0(data.sync_id)
        bySync   == IF Truthy(sync_id) THEN QueryBySyncId(table, pharmacy_id, sync_id) ELSE 0
        k        == IF bySync = 0 /\ data.id # 0
                    THEN QueryById(table, pharmacy_id, data.id) ELSE bySync
        customer == Target(cur, k, pharmacy_id)
    IN Return(Put(cur, k, Stamp([customer EXCEPT
            !.name = Get(data.name, customer.name),
            !.val = Get(data.val, customer.val),
            !.sync_id = IF Truthy(sync_id) THEN sync_id ELSE customer.sync_id], t)))

\* Line 299 evaluates supplier.contact_name, the default of data.get, before
\* the call. Supplier has no such attribute (its column is contact_person), so
\* the read raises AttributeError for every record, after the name was set.
_upsert_supplier(table, cur, pharmacy_id, data, t) ==
    LET k        == IF data.id # 0 THEN QueryById(table, pharmacy_id, data.id) ELSE 0
        supplier == Target(cur, k, pharmacy_id)
    IN Raise(Put(cur, k, [supplier EXCEPT
            !.name = Get(data.name, supplier.name)]), "AttributeError")

_upsert_supplier_order(table, cur, pharmacy_id, data, t) ==
    LET k     == IF data.id # 0 THEN QueryById(table, pharmacy_id, data.id) ELSE 0
        order == Target(cur, k, pharmacy_id)
    IN Return(Put(cur, k, Stamp([order EXCEPT
            !.name = Get(data.name, order.name),
            !.val = Get(data.val, Or0(order.val))], t)))

_upsert_sale(table, cur, pharmacy_id, data, t) ==
    LET k    == IF data.id # 0 THEN QueryById(table, pharmacy_id, data.id) ELSE 0
        sale == Target(cur, k, pharmacy_id)
    IN Return(Put(cur, k, Stamp([sale EXCEPT
            !.name = Get(data.name, sale.name),
            !.val = Get(data.val, Or0(sale.val)),
            !.sync_id = Get(data.sync_id, sale.sync_id),
            !.items = IF data.has_items /\ data.items # <<>>
                      THEN data.items ELSE sale.items], t)))

-----------------------------------------------------------------------------
(* upload_data: POST /sync/upload *)

UnknownType == "widgets"

\* the dispatch of upload_data's loop body on entity_type
Upsert(entity_type, table, cur, pharmacy_id, data, t) ==
    CASE entity_type = "products"  -> _upsert_product(table, cur, pharmacy_id, data, t)
      [] entity_type = "customers" -> _upsert_customer(table, cur, pharmacy_id, data, t)
      [] entity_type = "suppliers" -> _upsert_supplier(table, cur, pharmacy_id, data, t)
      [] entity_type = "orders"    -> _upsert_supplier_order(table, cur, pharmacy_id, data, t)
      [] entity_type = "sales"     -> _upsert_sale(table, cur, pharmacy_id, data, t)

\* processed += 1 in each recognised branch, `continue` otherwise
Processed(entity_type, processed) ==
    IF entity_type \in EntityTypes THEN processed + 1 ELSE processed

\* the for loop of upload_data over items[1..n]: the rows pending in the
\* session, the processed counter, and the exception that ended the loop
RECURSIVE UploadLoop(_, _, _, _, _, _)
UploadLoop(entity_type, table, pharmacy_id, items, n, t) ==
    IF n = 0 THEN [rows |-> table, processed |-> 0, raised |-> NULL]
    ELSE LET before == UploadLoop(entity_type, table, pharmacy_id, items, n - 1, t)
             after  == IF entity_type \in EntityTypes
                       THEN Upsert(entity_type, table, before.rows, pharmacy_id, items[n], t)
                       ELSE Return(before.rows)
         IN IF before.raised # NULL THEN before
            ELSE IF after.raised # NULL
                 THEN [rows |-> after.rows, processed |-> before.processed,
                       raised |-> after.raised]
                 ELSE [rows |-> after.rows,
                       processed |-> Processed(entity_type, before.processed),
                       raised |-> NULL]

\* The constraints the database checks when db.commit() flushes the session:
\*   sync_id UNIQUE on every entity table; sale_number UNIQUE NOT NULL;
\*   products.name, customers.first_name, suppliers.name NOT NULL;
\*   products.quantity, sales.total_amount, supplier_orders.tax NOT NULL;
\*   supplier_orders.user_id and order_number NOT NULL, which no upsert sets,
\*   so that an upsert can never insert an order.
CommitOk(entity_type, table, rows) ==
    /\ \A i, j \in 1..Len(rows) :
          i # j /\ rows[i].sync_id # NULL => rows[i].sync_id # rows[j].sync_id
    /\ entity_type \in {"products", "customers", "suppliers", "sales"}
          => \A i \in 1..Len(rows) : rows[i].name # NULL
    /\ entity_type \in {"products", "sales", "orders"}
          => \A i \in 1..Len(rows) : rows[i].val # NULL
    /\ entity_type = "sales"
          => \A i, j \in 1..Len(rows) : i # j => rows[i].name # rows[j].name
    /\ entity_type = "orders" => Len(rows) = Len(table)

\* a SyncUploadPayload of a tenant's user, with the response it got
Response(pharmacy_id, entity_type, items, status, processed) ==
    [pharmacy_id |-> pharmacy_id, entity_type |-> entity_type,
     items |-> items, status |-> status, processed |-> processed]

\* upload_data, were it to commit after each item: a failing batch keeps the
\* rows of the items before the failure
upload_data_commits_each_item(pharmacy_id, entity_type, items) ==
    LET t     == now + 1
        table == IF entity_type \in EntityTypes THEN db[entity_type] ELSE <<>>
        done  == UploadLoop(entity_type, table, pharmacy_id, items, Len(items), t)
        part  == IF items = <<>> THEN done
                 ELSE UploadLoop(entity_type, table, pharmacy_id, items, Len(items) - 1, t)
    IN /\ now < MaxTime
       /\ uploads < MaxUploads
       /\ requests < MaxRequests
       /\ Len(done.rows) <= MaxRows
       /\ uploads' = uploads + 1
       /\ requests' = requests + 1
       /\ IF done.raised = NULL /\ CommitOk(entity_type, table, done.rows)
          THEN /\ db' = IF entity_type \in EntityTypes
                        THEN [db EXCEPT ![entity_type] = done.rows] ELSE db
               /\ now' = t
               /\ http' = Append(http, Response(pharmacy_id, entity_type, items,
                                                200, done.processed))
          ELSE /\ db' = IF /\ entity_type \in EntityTypes
                           /\ part.raised = NULL
                           /\ CommitOk(entity_type, table, part.rows)
                        THEN [db EXCEPT ![entity_type] = part.rows] ELSE db
               /\ now' = now
               /\ http' = Append(http, Response(pharmacy_id, entity_type, items,
                                                IF done.raised # NULL THEN 500 ELSE 400, 0))
       /\ UNCHANGED <<pharmacy_last_sync_at, sync_logs, runs>>

upload_data(pharmacy_id, entity_type, items) ==
    LET t     == now + 1
        table == IF entity_type \in EntityTypes THEN db[entity_type] ELSE <<>>
        done  == UploadLoop(entity_type, table, pharmacy_id, items, Len(items), t)
    IN /\ now < MaxTime
       /\ uploads < MaxUploads
       /\ requests < MaxRequests
       /\ Len(done.rows) <= MaxRows
       /\ uploads' = uploads + 1
       /\ requests' = requests + 1
       /\ IF done.raised # NULL
          THEN \* the exception leaves the handler before db.commit(): get_db
               \* closes the session, and general_exception_handler answers 500
               /\ UNCHANGED <<db, now>>
               /\ http' = Append(http, Response(pharmacy_id, entity_type, items,
                                                500, 0))
          ELSE IF CommitOk(entity_type, table, done.rows)
          THEN /\ db' = IF entity_type \in EntityTypes
                        THEN [db EXCEPT ![entity_type] = done.rows] ELSE db
               /\ now' = t
               /\ http' = Append(http, Response(pharmacy_id, entity_type, items,
                                                200, done.processed))
          ELSE \* IntegrityError: the transaction is rolled back, and
               \* sqlalchemy_exception_handler answers 400
               /\ UNCHANGED <<db, now>>
               /\ http' = Append(http, Response(pharmacy_id, entity_type, items,
                                                400, 0))
       /\ UNCHANGED <<pharmacy_last_sync_at, sync_logs, runs>>

Item(id, sync_id, name, val, has_items, items) ==
    [id |-> id, sync_id |-> sync_id, name |-> name, val |-> val,
     has_items |-> has_items, items |-> items]

\* the records a single-item batch is drawn from
UploadItems ==
    { Item(0, "S1", "a", ABSENT, TRUE, <<1, 2>>),
      Item(0, "S1", "a", ABSENT, TRUE, <<1>>),
      Item(0, "S1", "b", "1", FALSE, <<>>),
      Item(0, ABSENT, "a", ABSENT, FALSE, <<>>),
      Item(1, ABSENT, ABSENT, "1", TRUE, <<>>),
      Item(1, ABSENT, "b", ABSENT, TRUE, <<1>>),
      Item(1, "S2", ABSENT, ABSENT, FALSE, <<>>),
      Item(1, NULL, NULL, ABSENT, FALSE, <<>>) }

\* the records a longer batch is drawn from
BatchItems ==
    { Item(0, "S1", "a", ABSENT, FALSE, <<>>),
      Item(0, "S2", "b", ABSENT, FALSE, <<>>),
      Item(1, ABSENT, "b", "1", FALSE, <<>>) }

UploadBatches ==
    {<<>>} \cup {<<x>> : x \in UploadItems}
           \cup UNION {[1..n -> BatchItems] : n \in 2..MaxBatch}

UploadTypes == EntityTypes \cup {UnknownType}

UploadBatch ==
    \E pharmacy_id \in Tenants, entity_type \in UploadTypes, items \in UploadBatches :
        upload_data(pharmacy_id, entity_type, items)

-----------------------------------------------------------------------------
(* Local modifications: the product CRUD handlers *)

\* POST /products
create_product(pharmacy_id, name) ==
    LET t == now + 1
    IN /\ now < MaxTime
       /\ Len(db["products"]) < MaxRows
       /\ now' = t
       /\ db' = [db EXCEPT !["products"] = Append(@,
                    [NewRow(Len(@) + 1, pharmacy_id) EXCEPT
                        !.name = name, !.val = "0", !.updated_at = t])]
       /\ requests < MaxRequests
       /\ requests' = requests + 1
       /\ UNCHANGED <<pharmacy_last_sync_at, sync_logs, runs, http, uploads>>

\* PUT /products/{product_id}: 404 unless the product is the caller's
update_product(pharmacy_id, product_id, name) ==
    LET t == now + 1
    IN /\ now < MaxTime
       /\ QueryById(db["products"], pharmacy_id, product_id) # 0
       /\ db["products"][product_id].name # name
       /\ now' = t
       /\ db' = [db EXCEPT !["products"][product_id] =
                    [@ EXCEPT !.name = name, !.updated_at = t]]
       /\ requests < MaxRequests
       /\ requests' = requests + 1
       /\ UNCHANGED <<pharmacy_last_sync_at, sync_logs, runs, http, uploads>>

ProductNames == {"a", "b"}

CreateProduct == \E pharmacy_id \in Tenants : create_product(pharmacy_id, "a")

UpdateProduct ==
    \E pharmacy_id \in Tenants, product_id \in 1..MaxRows, name \in ProductNames :
        update_product(pharmacy_id, product_id, name)

-----------------------------------------------------------------------------
(* sync_data: POST /sync *)

\* query.count() of _upload_entities: the rows of the tenant, filtered by
\* (updated_at > last_sync_at) | (last_sync_at IS NULL) only `if last_sync_at`
ChangeSet(entity_type, pharmacy_id, last_sync_at) ==
    IF entity_type \notin EntityTypes THEN {}
    ELSE {i \in 1..Len(db[entity_type]) :
            /\ db[entity_type][i].pharmacy_id = pharmacy_id
            /\ (last_sync_at # 0 =>
                    \/ db[entity_type][i].updated_at > last_sync_at
                    \/ db[entity_type][i].last_sync_at = 0)}

_upload_entities(pharmacy_id, entity_type, last_sync_at) ==
    Cardinality(ChangeSet(entity_type, pharmacy_id, last_sync_at))

_download_entities(pharmacy_id, entity_type, last_sync_at) == 0

RECURSIVE _resolve_conflicts(_, _)
_resolve_conflicts(conflicts, n) ==
    IF n = 0 THEN 0
    ELSE _resolve_conflicts(conflicts, n - 1)
         + (IF conflicts[n].resolution \in {"local", "cloud", "merge"} THEN 1 ELSE 0)

\* a ConflictResolution of the request body: the local snapshot is the older
\* of the two
Conflict(entity_id, cloud_name, resolution) ==
    [entity_type |-> "products", entity_id |-> entity_id,
     local_version |-> [name |-> "a", updated_at |-> 1],
     cloud_version |-> [name |-> cloud_name, updated_at |-> 2],
     resolution |-> resolution]

SyncRequest(pharmacy_id, direction, entity_types, last_sync_at, conflicts) ==
    [pharmacy_id |-> pharmacy_id, direction |-> direction,
     entity_types |-> entity_types, last_sync_at |-> last_sync_at,
     conflicts |-> conflicts]

\* sync_request.entity_types or [...]
EntityTypesOf(req) ==
    IF req.entity_types = <<>> THEN DefaultEntityTypes ELSE req.entity_types

NewRun(req) ==
    [req |-> req, pc |-> "start", records_uploaded |-> 0,
     records_downloaded |-> 0, conflicts_count |-> 0, log |-> 0,
     status |-> 0, error |-> NULL, selected |-> {}, utcnow |-> 0]

NewSyncLog(req, t) ==
    [pharmacy_id |-> req.pharmacy_id, direction |-> req.direction,
     status |-> "in_progress", records_uploaded |-> 0, records_downloaded |-> 0,
     conflicts_count |-> 0, error_message |-> NULL,
     started_at |-> t, completed_at |-> 0]

\* The request body is validated against the SyncRequest schema before the
\* handler runs: a direction outside the SyncDirection enum is answered 422.
Reject(req) ==
    /\ Len(runs) < MaxRuns
    /\ req.direction \notin SyncDirection
    /\ runs' = Append(runs, [NewRun(req) EXCEPT !.pc = "done", !.status = 422])
    /\ requests < MaxRequests
    /\ requests' = requests + 1
    /\ UNCHANGED <<now, db, pharmacy_last_sync_at, sync_logs, http, uploads>>

\* lines 29-40: the SyncLog row is added IN_PROGRESS and committed
Start(req) ==
    LET t == now
    IN /\ Len(runs) < MaxRuns
       /\ req.direction \in SyncDirection
       /\ sync_logs' = Append(sync_logs, NewSyncLog(req, t))
       /\ runs' = Append(runs, [NewRun(req) EXCEPT
                    !.log = Len(sync_logs) + 1,
                    !.pc = IF req.direction \in {"upload", "bidirectional"}
                           THEN "upload" ELSE "finalize"])
       /\ requests < MaxRequests
       /\ requests' = requests + 1
       /\ UNCHANGED <<now, db, pharmacy_last_sync_at, http, uploads>>

\* the for loop of lines 52-54 over types[1..n]: the count, and the rows the
\* queries selected (each with the updated_at it had)
RECURSIVE UploadEntitiesLoop(_, _, _)
UploadEntitiesLoop(req, types, n) ==
    IF n = 0 THEN [records_uploaded |-> 0, selected |-> {}]
    ELSE LET before == UploadEntitiesLoop(req, types, n - 1)
             hits   == ChangeSet(types[n], req.pharmacy_id, req.last_sync_at)
         IN [records_uploaded |-> before.records_uploaded
                + _upload_entities(req.pharmacy_id, types[n], req.last_sync_at),
             selected |-> before.selected
                \cup {<<types[n], i, db[types[n]][i].updated_at>> : i \in hits}]

\* the upload loop, were it to mark the rows it selects as synced
UploadStepStampsRows(r) ==
    LET run   == runs[r]
        types == EntityTypesOf(run.req)
        up    == UploadEntitiesLoop(run.req, types, Len(types))
    IN /\ run.pc = "upload"
       /\ runs' = [runs EXCEPT ![r] = [run EXCEPT
                    !.records_uploaded = up.records_uploaded,
                    !.selected = up.selected,
                    !.pc = "finalize"]]
       /\ db' = [t \in EntityTypes |-> [i \in 1..Len(db[t]) |->
                    IF <<t, i, db[t][i].updated_at>> \in up.selected
                    THEN [db[t][i] EXCEPT !.last_sync_at = now] ELSE db[t][i]]]
       /\ UNCHANGED <<now, pharmacy_last_sync_at, sync_logs, http, uploads, requests>>

\* lines 50-54: the upload loop. Its queries only read, and in this model
\* no other handler's step falls between two of them.
UploadStep(r) ==
    LET run   == runs[r]
        types == EntityTypesOf(run.req)
        up    == UploadEntitiesLoop(run.req, types, Len(types))
    IN /\ run.pc = "upload"
       /\ runs' = [runs EXCEPT ![r] = [run EXCEPT
                    !.records_uploaded = up.records_uploaded,
                    !.selected = up.selected,
                    !.pc = "finalize"]]
       /\ UNCHANGED <<now, db, pharmacy_last_sync_at, sync_logs, http, uploads, requests>>

RECURSIVE DownloadLoop(_, _)
DownloadLoop(req, n) ==
    IF n = 0 THEN 0
    ELSE DownloadLoop(req, n - 1)
         + _download_entities(req.pharmacy_id, EntityTypesOf(req)[n], req.last_sync_at)

\* lines 69-79: the finished SyncLog and Pharmacy.last_sync_at are assigned
\* in the session with the value datetime.utcnow() returns, to be written by
\* the commit of line 81; other requests run between the two
UtcNow(r) ==
    LET run == runs[r]
        t   == now + 1
    IN /\ run.pc = "finalize"
       /\ run.utcnow = 0
       /\ now < MaxTime
       /\ now' = t
       /\ runs' = [runs EXCEPT ![r] = [run EXCEPT !.utcnow = t]]
       /\ UNCHANGED <<db, pharmacy_last_sync_at, sync_logs, http, uploads, requests>>

FinalizeOldestLog(r) ==
    LET run  == runs[r]
        req  == run.req
        t    == run.utcnow
        k    == CHOOSE i \in 1..Len(sync_logs) :
                    /\ sync_logs[i].pharmacy_id = req.pharmacy_id
                    /\ \A j \in 1..Len(sync_logs) :
                          sync_logs[j].pharmacy_id = req.pharmacy_id => i <= j
    IN /\ run.pc = "finalize"
       /\ run.utcnow # 0
       /\ sync_logs' = [sync_logs EXCEPT ![k] = [@ EXCEPT
                    !.status = "completed",
                    !.records_uploaded = run.records_uploaded,
                    !.completed_at = t]]
       /\ pharmacy_last_sync_at' = [pharmacy_last_sync_at EXCEPT ![req.pharmacy_id] = t]
       /\ runs' = [runs EXCEPT ![r] = [run EXCEPT !.pc = "done", !.status = 200]]
       /\ UNCHANGED <<now, db, http, uploads, requests>>

\* lines 56-91: the download loop, the conflicts, and the one commit that
\* writes the finished SyncLog and Pharmacy.last_sync_at as assigned
Finalize(r) ==
    LET run  == runs[r]
        req  == run.req
        t    == run.utcnow
        down == IF req.direction \in {"download", "bidirectional"}
                THEN DownloadLoop(req, Len(EntityTypesOf(req))) ELSE 0
        conf == IF req.conflicts # <<>>
                THEN _resolve_conflicts(req.conflicts, Len(req.conflicts)) ELSE 0
    IN /\ run.pc = "finalize"
       /\ run.utcnow # 0
       /\ sync_logs' = [sync_logs EXCEPT ![run.log] = [@ EXCEPT
                    !.status = "completed",
                    !.records_uploaded = run.records_uploaded,
                    !.records_downloaded = down,
                    !.conflicts_count = conf,
                    !.completed_at = t]]
       /\ pharmacy_last_sync_at' = [pharmacy_last_sync_at EXCEPT ![req.pharmacy_id] = t]
       /\ runs' = [runs EXCEPT ![r] = [run EXCEPT
                    !.pc = "done", !.status = 200,
                    !.records_downloaded = down, !.conflicts_count = conf]]
       /\ UNCHANGED <<now, db, http, uploads, requests>>

\* lines 93-102, the except clause: the SyncLog is written FAILED with the
\* error and committed, and the caller is answered 500
ExceptClauseCommitsPending(r, error) ==
    LET run == runs[r]
    IN /\ sync_logs' = [sync_logs EXCEPT ![run.log] = [@ EXCEPT
                    !.status = "failed",
                    !.error_message = error,
                    !.completed_at = now]]
       /\ pharmacy_last_sync_at' =
            [pharmacy_last_sync_at EXCEPT ![run.req.pharmacy_id] = now]
       /\ runs' = [runs EXCEPT ![r] = [run EXCEPT
                    !.pc = "done", !.status = 500, !.error = error]]
       /\ UNCHANGED <<now, db, http, uploads, requests>>

ExceptClause(r, error) ==
    LET run == runs[r]
    IN /\ sync_logs' = [sync_logs EXCEPT ![run.log] = [@ EXCEPT
                    !.status = "failed",
                    !.error_message = error,
                    !.completed_at = now]]
       /\ runs' = [runs EXCEPT ![r] = [run EXCEPT
                    !.pc = "done", !.status = 500, !.error = error]]
       /\ UNCHANGED <<now, db, pharmacy_last_sync_at, http, uploads, requests>>

\* The except clause issues no db.rollback() before its db.commit(). When the
\* error left the session's transaction unusable (PostgreSQL aborts the
\* transaction of a failed statement; a lost connection invalidates it), this
\* commit raises in its turn: the SyncLog row stays as line 40 committed it,
\* and sqlalchemy_exception_handler answers 500.
ExceptClauseCommitRaises(r, error) ==
    LET run == runs[r]
    IN /\ runs' = [runs EXCEPT ![r] = [run EXCEPT
                    !.pc = "done", !.status = 500, !.error = error]]
       /\ UNCHANGED <<now, db, pharmacy_last_sync_at, sync_logs, http, uploads, requests>>

\* a query of the upload loop raises (a database error)
UploadFail(r) ==
    /\ runs[r].pc = "upload"
    /\ \/ ExceptClause(r, "db error")
       \/ ExceptClauseCommitRaises(r, "db error")

\* db.commit() of line 81 raises: the session is rolled back, so that nothing
\* of lines 69-79 is written
FinalizeFail(r) ==
    /\ runs[r].pc = "finalize"
    /\ \/ ExceptClause(r, "db error")
       \/ ExceptClauseCommitRaises(r, "db error")

\* what clients send as last_sync_at: nothing, the tenant's stored baseline,
\* or the current time
LastSyncChoices(pharmacy_id) == {0, pharmacy_last_sync_at[pharmacy_id], now}

\* the same resolution submitted twice in one request
ConflictsTwice == <<Conflict(1, "b", "cloud"), Conflict(1, "b", "cloud")>>

\* two resolutions, and one whose resolution is none of local, cloud, merge
ConflictsMixed ==
    <<Conflict(1, "b", "local"), Conflict(2, "b", "merge"), Conflict(1, "b", "theirs")>>

SyncRequests ==
    UNION {
        {SyncRequest(p, "upload", <<>>, l, <<>>) : l \in LastSyncChoices(p)}
        \cup {SyncRequest(p, "upload", <<"products", UnknownType>>,
                          pharmacy_last_sync_at[p], ConflictsTwice)}
        \cup {SyncRequest(p, "bidirectional", <<"products">>,
                          pharmacy_last_sync_at[p], <<>>)}
        \cup {SyncRequest(p, "download", <<>>, 0, ConflictsMixed)}
        \cup {SyncRequest(p, "sideways", <<>>, 0, <<>>)}
      : p \in Tenants}

-----------------------------------------------------------------------------

Init ==
    /\ now = 1
    /\ db = [t \in EntityTypes |-> <<>>]
    /\ pharmacy_last_sync_at = [p \in Tenants |-> 0]
    /\ sync_logs = <<>>
    /\ runs = <<>>
    /\ http = <<>>
    /\ uploads = 0
    /\ requests = 0

\* the batches that upload rows next to the start-sync runs
SyncSpecBatches ==
    { <<Item(0, "S1", "a", ABSENT, FALSE, <<>>)>>,
      <<Item(1, ABSENT, "b", ABSENT, FALSE, <<>>)>> }

Next ==
    \/ \E req \in SyncRequests : Reject(req)
    \/ \E req \in SyncRequests : Start(req)
    \/ \E r \in 1..Len(runs) : UploadStep(r)
    \/ \E r \in 1..Len(runs) : UploadFail(r)
    \/ \E r \in 1..Len(runs) : UtcNow(r)
    \/ \E r \in 1..Len(runs) : Finalize(r)
    \/ \E r \in 1..Len(runs) : FinalizeFail(r)
    \/ CreateProduct
    \/ UpdateProduct
    \/ \E pharmacy_id \in Tenants, entity_type \in {"products"},
          items \in SyncSpecBatches :
            upload_data(pharmacy_id, entity_type, items)

Spec == Init /\ [][Next]_vars

\* an order made before the uploads (POST /suppliers/orders): tenant 1's
ExistingOrder ==
    [NewRow(1, 1) EXCEPT !.name = "a", !.val = "0", !.updated_at = 1]

InitUpload ==
    /\ \E orders \in {<<>>, <<ExistingOrder>>} :
          /\ db = [t \in EntityTypes |-> IF t = "orders" THEN orders ELSE <<>>]
          /\ now = 1
    /\ pharmacy_last_sync_at = [p \in Tenants |-> 0]
    /\ sync_logs = <<>>
    /\ runs = <<>>
    /\ http = <<>>
    /\ uploads = 0
    /\ requests = 0

NextUpload == UploadBatch

SpecUpload == InitUpload /\ [][NextUpload]_vars

-----------------------------------------------------------------------------
(* Helpers of the properties *)

LogOf(r) == sync_logs[runs[r].log]

Last(s) == s[Len(s)]

SameRequest(x, y) ==
    /\ x.pharmacy_id = y.pharmacy_id
    /\ x.entity_type = y.entity_type
    /\ x.items = y.items

\* the same rows with the same field values, the two stamps apart
SameRows(t1, t2) ==
    /\ Len(t1) = Len(t2)
    /\ \A i \in 1..Len(t1) :
          [t1[i] EXCEPT !.last_sync_at = 0, !.updated_at = 0]
            = [t2[i] EXCEPT !.last_sync_at = 0, !.updated_at = 0]

\* the start-sync runs of one tenant overlapped: each began before the other ended
Overlap(r1, r2) ==
    /\ LogOf(r1).started_at < LogOf(r2).completed_at
    /\ LogOf(r2).started_at < LogOf(r1).completed_at

\* the row versions some run's change set held
AllSelected == UNION {runs[r].selected : r \in 1..Len(runs)}

\* the selection predicate against the tenant's stored baseline
Eligible(row) ==
    \/ pharmacy_last_sync_at[row.pharmacy_id] = 0
    \/ row.updated_at > pharmacy_last_sync_at[row.pharmacy_id]
    \/ row.last_sync_at = 0

-----------------------------------------------------------------------------
(* C1: a tenant's baseline changes only in the step that commits a run of    *)
(* that tenant as COMPLETED, and never in a step that writes a session       *)
(* FAILED.                                                                   *)
C1_BaselineOnlyWithCompleted ==
    [][ /\ \A p \in Tenants :
            pharmacy_last_sync_at'[p] # pharmacy_last_sync_at[p] =>
                \E r \in 1..Len(runs) :
                    /\ runs[r].req.pharmacy_id = p
                    /\ runs[r].log # 0
                    /\ LogOf(r).status = "in_progress"
                    /\ sync_logs'[runs[r].log].status = "completed"
        /\ (\E i \in 1..Len(sync_logs) :
                sync_logs[i].status # "failed" /\ sync_logs'[i].status = "failed")
             => pharmacy_last_sync_at' = pharmacy_last_sync_at ]_vars

\* one run of a tenant failed and another advanced the baseline
C1_Witness ==
    \E r1, r2 \in 1..Len(runs) :
        /\ runs[r1].req.pharmacy_id = runs[r2].req.pharmacy_id
        /\ runs[r1].status = 500 /\ LogOf(r1).status = "failed"
        /\ runs[r2].status = 200 /\ LogOf(r2).status = "completed"
        /\ pharmacy_last_sync_at[runs[r2].req.pharmacy_id] # 0

(* C2: uploading again the single-record batch that was just applied leaves  *)
(* every table with the same rows and the same field values, the stamps      *)
(* apart.                                                                    *)
C2_UpsertIdempotent ==
    [][ ( /\ Len(http) >= 1
          /\ Len(http') = Len(http) + 1
          /\ SameRequest(Last(http), Last(http'))
          /\ Last(http).status = 200
          /\ Len(Last(http).items) = 1 )
        => \A t \in EntityTypes : SameRows(db[t], db'[t]) ]_vars

(* C3: of two overlapping start-sync runs of one tenant at most one ends     *)
(* COMPLETED.                                                                *)
C3_OneOfTwoConcurrentRunsCompletes ==
    \A r1, r2 \in 1..Len(runs) :
        ( /\ r1 # r2
          /\ runs[r1].req.pharmacy_id = runs[r2].req.pharmacy_id
          /\ runs[r1].pc = "done" /\ runs[r1].log # 0
          /\ runs[r2].pc = "done" /\ runs[r2].log # 0
          /\ Overlap(r1, r2) )
        => ~ (LogOf(r1).status = "completed" /\ LogOf(r2).status = "completed")

(* C4: a row modified locally after it was last reconciled, in a version no  *)
(* run has had in a change set, is selected against the stored baseline.     *)
(* Stated for the tenants whose runs all upload every entity type from a     *)
(* null last_sync_at.                                                        *)
C4_ModifiedRowStaysSelectable ==
    \A t \in EntityTypes : \A i \in 1..Len(db[t]) :
        ( /\ db[t][i].updated_at > db[t][i].last_sync_at
          /\ <<t, i, db[t][i].updated_at>> \notin AllSelected
          /\ \A r \in 1..Len(runs) :
                runs[r].req.pharmacy_id = db[t][i].pharmacy_id =>
                    /\ runs[r].req.direction = "upload"
                    /\ runs[r].req.entity_types = <<>>
                    /\ runs[r].req.last_sync_at = 0 )
        => Eligible(db[t][i])

(* C5: a run that failed after its session row was written has the session   *)
(* FAILED with the error message and was answered with an error, only a run   *)
(* whose session is COMPLETED is answered 200, and a baseline is the          *)
(* completed_at of a COMPLETED session of the tenant.                         *)
C5_FailureRecordedAndReported ==
    /\ \A r \in 1..Len(runs) :
            /\ (runs[r].pc = "done" /\ runs[r].error # NULL) =>
                    /\ LogOf(r).status = "failed"
                    /\ LogOf(r).error_message = runs[r].error
                    /\ runs[r].status = 500
            /\ (runs[r].pc = "done" /\ runs[r].status = 200) =>
                    LogOf(r).status = "completed"
    /\ \A p \in Tenants :
            pharmacy_last_sync_at[p] # 0 =>
                \E i \in 1..Len(sync_logs) :
                    /\ sync_logs[i].pharmacy_id = p
                    /\ sync_logs[i].status = "completed"
                    /\ sync_logs[i].completed_at = pharmacy_last_sync_at[p]

(* C6: every request for which a session row was written has a valid         *)
(* direction and only known entity types.                                    *)
C6_InvalidRequestWritesNoSession ==
    \A r \in 1..Len(runs) :
        runs[r].log # 0 =>
            /\ runs[r].req.direction \in SyncDirection
            /\ Range(runs[r].req.entity_types) \subseteq EntityTypes

(* C7: after an UPLOAD run of every entity type from a null last_sync_at     *)
(* has completed, an UPLOAD run sent with the baseline that run stored       *)
(* reports uploaded_count = 0 when every row of the tenant is as the first   *)
(* run selected it.                                                          *)
C7_SecondRunUploadsNothing ==
    \A r1, r2 \in 1..Len(runs) :
        ( /\ runs[r1].req.pharmacy_id = runs[r2].req.pharmacy_id
          /\ runs[r1].status = 200 /\ runs[r2].status = 200
          /\ runs[r1].req.direction = "upload" /\ runs[r2].req.direction = "upload"
          /\ runs[r1].req.entity_types = <<>> /\ runs[r2].req.entity_types = <<>>
          /\ runs[r1].req.last_sync_at = 0
          /\ runs[r2].req.last_sync_at = LogOf(r1).completed_at
          /\ LogOf(r2).started_at >= LogOf(r1).completed_at
          /\ \A t \in EntityTypes : \A i \in 1..Len(db[t]) :
                db[t][i].pharmacy_id = runs[r1].req.pharmacy_id
                    => <<t, i, db[t][i].updated_at>> \in runs[r1].selected )
        => runs[r2].records_uploaded = 0

(* C8: a sale uploaded by its sync_id with 2 line items and uploaded again   *)
(* with 1 line item is one sale row with 1 line item.                        *)
C8_SaleItemsReplaced ==
    ( /\ Len(http) = 2
      /\ http[1].entity_type = "sales" /\ http[2].entity_type = "sales"
      /\ http[1].pharmacy_id = http[2].pharmacy_id
      /\ Len(http[1].items) = 1 /\ Len(http[2].items) = 1
      /\ http[1].status = 200
      /\ Truthy(http[1].items[1].sync_id)
      /\ http[1].items[1].id = 0 /\ http[2].items[1].id = 0
      /\ http[2].items[1].sync_id = http[1].items[1].sync_id
      /\ Len(http[1].items[1].items) = 2
      /\ Len(http[2].items[1].items) = 1 )
    => LET mine == {i \in 1..Len(db["sales"]) :
                      /\ db["sales"][i].pharmacy_id = http[1].pharmacy_id
                      /\ db["sales"][i].sync_id = http[1].items[1].sync_id}
       IN /\ Cardinality(mine) = 1
          /\ \A i \in mine : db["sales"][i].items = http[2].items[1].items

(* C9: the conflict_count of a run counts each submitted ConflictRecord at   *)
(* most once.                                                                *)
C9_ConflictCountedOnce ==
    \A r \in 1..Len(runs) :
        runs[r].status = 200 =>
            runs[r].conflicts_count <= Cardinality(Range(runs[r].req.conflicts))

(* C10: every upload batch of a recognised entity type that no database     *)
(* constraint rejects is answered with a processed count, the number of      *)
(* items of the batch.                                                       *)
C10_ProcessedIsBatchSize ==
    \A k \in 1..Len(http) :
        (http[k].entity_type \in EntityTypes /\ http[k].status # 400)
            => /\ http[k].status = 200
               /\ http[k].processed = Len(http[k].items)

(* C11: a run that leaves a submitted conflict unresolved has its session     *)
(* finalized CONFLICT, not COMPLETED: a COMPLETED session resolved every      *)
(* conflict it was sent.                                                      *)
C11_UnresolvedConflictNotCompleted ==
    \A r \in 1..Len(runs) :
        (runs[r].pc = "done" /\ runs[r].log # 0 /\ runs[r].error = NULL) =>
            IF runs[r].conflicts_count < Len(runs[r].req.conflicts)
            THEN LogOf(r).status = "conflict"
            ELSE LogOf(r).status = "completed"

(* C12: no step changes a non-null sync_id of a row, and no two rows of a     *)
(* table hold the same non-null sync_id.                                      *)
C12_SyncIdImmutableAndUnique ==
    [][ \A t \in EntityTypes :
          /\ \A i \in 1..Len(db[t]) :
                db[t][i].sync_id # NULL => db'[t][i].sync_id = db[t][i].sync_id
          /\ \A i, j \in 1..Len(db'[t]) :
                (i # j /\ db'[t][i].sync_id # NULL)
                    => db'[t][i].sync_id # db'[t][j].sync_id ]_vars

Terminal == {"completed", "failed", "conflict"}

(* C13: no step changes a session row that has a terminal status.            *)
C13_TerminalSessionImmutable ==
    [][ \A i \in 1..Len(sync_logs) :
            sync_logs[i].status \in Terminal => sync_logs'[i] = sync_logs[i] ]_vars

\* a run of a tenant started, and ended, after another run of the tenant had
\* ended COMPLETED, and after a batch was uploaded
C13_Witness ==
    \E i, j \in 1..Len(sync_logs) :
        /\ i # j
        /\ sync_logs[i].pharmacy_id = sync_logs[j].pharmacy_id
        /\ sync_logs[i].status = "completed"
        /\ sync_logs[j].status \in Terminal
        /\ sync_logs[j].started_at >= sync_logs[i].completed_at
        /\ \E k \in 1..Len(http) : http[k].status = 200

(* C14: the session row of a run is IN_PROGRESS while the run executes and    *)
(* has a terminal status once the run has answered its caller.                *)
C14_NoSessionLeftInProgress ==
    \A r \in 1..Len(runs) :
        runs[r].log # 0 =>
            IF runs[r].pc = "done"
            THEN LogOf(r).status \in Terminal
            ELSE LogOf(r).status = "in_progress"

\* the request carries a sync_id that a row of another tenant holds
ForeignSyncId(request, tables) ==
    /\ request.entity_type \in EntityTypes
    /\ \E n \in 1..Len(request.items) :
          /\ Truthy(request.items[n].sync_id)
          /\ \E i \in 1..Len(tables[request.entity_type]) :
                /\ tables[request.entity_type][i].sync_id = request.items[n].sync_id
                /\ tables[request.entity_type][i].pharmacy_id # request.pharmacy_id

(* C15: an upload batch with an item whose sync_id is on a row of another    *)
(* tenant is answered with the integrity error, and changes no row.          *)
C15_ForeignSyncIdRejected ==
    [][ (Len(http') = Len(http) + 1 /\ ForeignSyncId(Last(http'), db))
            => (Last(http').status = 400 /\ db' = db) ]_vars

\* tenant 2 was refused a record whose sync_id a row of tenant 1 holds
C15_Witness ==
    /\ Len(http) = 2
    /\ http[1].pharmacy_id = 1 /\ http[1].status = 200
    /\ http[2].pharmacy_id = 2 /\ http[2].status = 400
    /\ ForeignSyncId(http[2], db)

\* updated_at > baseline as the database evaluates it: no comparison with NULL
\* is true
ModifiedSince(updated_at, baseline) == baseline # 0 /\ updated_at > baseline

\* the rows of the tenant that were never synced or were modified since the baseline
Due(entity_type, pharmacy_id, baseline) ==
    {i \in 1..Len(db[entity_type]) :
        /\ db[entity_type][i].pharmacy_id = pharmacy_id
        /\ \/ ModifiedSince(db[entity_type][i].updated_at, baseline)
           \/ db[entity_type][i].last_sync_at = 0}

(* C16: for every baseline a run is sent, the null one included, the change   *)
(* set the run selects is the set of the tenant's rows with                   *)
(* updated_at > baseline or last_sync_at null, and its count is what the run  *)
(* adds to records_uploaded.                                                  *)
C16_ChangeSetIsThePredicate ==
    [][ \A r \in 1..Len(runs) :
          (runs[r].pc = "upload" /\ runs'[r].pc = "finalize") =>
            LET req   == runs[r].req
                types == Range(EntityTypesOf(req)) \cap EntityTypes
            IN /\ runs'[r].selected =
                    UNION {{<<t, i, db[t][i].updated_at>> :
                              i \in Due(t, req.pharmacy_id, req.last_sync_at)}
                           : t \in types}
               /\ runs'[r].records_uploaded = Cardinality(runs'[r].selected) ]_vars

(* C17: a single-record batch whose record carries the sync_id of a row of    *)
(* the tenant is applied to that row: the row is stamped and none is added.   *)
C17_MatchBySyncIdFirst ==
    [][ ( /\ Len(http') = Len(http) + 1
          /\ Last(http').entity_type \in EntityTypes
          /\ Len(Last(http').items) = 1
          /\ Truthy(Last(http').items[1].sync_id) )
        => LET request == Last(http')
               table   == db[request.entity_type]
           IN \A k \in 1..Len(table) :
                ( /\ table[k].pharmacy_id = request.pharmacy_id
                  /\ table[k].sync_id = request.items[1].sync_id )
                => /\ request.status = 200
                   /\ Len(db'[request.entity_type]) = Len(table)
                   /\ db'[request.entity_type][k].last_sync_at = now' ]_vars

\* a field after a partial update: the inbound value when the key is present
Merged(inbound, stored) == IF inbound = ABSENT THEN stored ELSE inbound

(* C18: an accepted single-record batch whose record matches a row of the     *)
(* tenant by its id leaves on that row the inbound value of every field the   *)
(* record carries and the stored value of every field it does not carry.      *)
C18_PartialUpdate ==
    [][ ( /\ Len(http') = Len(http) + 1
          /\ Last(http').entity_type \in EntityTypes
          /\ Last(http').status = 200
          /\ Len(Last(http').items) = 1
          /\ ~ Truthy(Last(http').items[1].sync_id)
          /\ QueryById(db[Last(http').entity_type], Last(http').pharmacy_id,
                       Last(http').items[1].id) # 0 )
        => LET data   == Last(http').items[1]
               stored == db[Last(http').entity_type][data.id]
               row    == db'[Last(http').entity_type][data.id]
           IN /\ row.name = Merged(data.name, stored.name)
              /\ row.val = Merged(data.val, stored.val)
              /\ row.sync_id = Merged(data.sync_id, stored.sync_id)
              /\ row.items = (IF data.has_items THEN data.items ELSE stored.items) ]_vars

Matches(table, k, pharmacy_id, data) ==
    /\ table[k].pharmacy_id = pharmacy_id
    /\ \/ Truthy(data.sync_id) /\ table[k].sync_id = data.sync_id
       \/ data.id = k

Resolved(req, resolution) ==
    {n \in 1..Len(req.conflicts) :
        /\ req.conflicts[n].resolution = resolution
        /\ req.conflicts[n].entity_type = "products"
        /\ QueryById(db["products"], req.pharmacy_id, req.conflicts[n].entity_id) # 0}

(* C21: when a run ends COMPLETED, the product of every conflict it was sent  *)
(* with resolution "cloud" holds the values of the conflict's remote          *)
(* snapshot.                                                                  *)
C21_CloudResolutionApplied ==
    [][ \A r \in 1..Len(runs) :
          (runs[r].pc = "finalize" /\ runs'[r].pc = "done" /\ runs'[r].status = 200)
          => \A n \in Resolved(runs[r].req, "cloud") :
                db'["products"][runs[r].req.conflicts[n].entity_id].name
                    = runs[r].req.conflicts[n].cloud_version.name ]_vars

(* C22: when a run ends COMPLETED, the product of every conflict it was sent  *)
(* with resolution "merge" holds, for the field in both snapshots, the value  *)
(* of the snapshot with the later updated_at.                                 *)
C22_MergeResolutionApplied ==
    [][ \A r \in 1..Len(runs) :
          (runs[r].pc = "finalize" /\ runs'[r].pc = "done" /\ runs'[r].status = 200)
          => \A n \in Resolved(runs[r].req, "merge") :
                LET c == runs[r].req.conflicts[n]
                IN db'["products"][c.entity_id].name
                    = (IF c.cloud_version.updated_at > c.local_version.updated_at
                       THEN c.cloud_version.name ELSE c.local_version.name) ]_vars

(* C23: the records_uploaded of a run is the count of the selection against   *)
(* the tenant's stored baseline.                                              *)
C23_SelectedAgainstStoredBaseline ==
    [][ \A r \in 1..Len(runs) :
          (runs[r].pc = "upload" /\ runs'[r].pc = "finalize") =>
            LET stored == [runs[r].req EXCEPT
                            !.last_sync_at = pharmacy_last_sync_at[runs[r].req.pharmacy_id]]
                types  == EntityTypesOf(stored)
            IN runs'[r].records_uploaded
                = UploadEntitiesLoop(stored, types, Len(types)).records_uploaded ]_vars


\* GET /sync/status (lines 537-580) only reads: the rows of the tenant with
\* last_sync_at NULL are counted for products, sales and customers
Pending(entity_type, pharmacy_id) ==
    Cardinality({i \in 1..Len(db[entity_type]) :
        /\ db[entity_type][i].pharmacy_id = pharmacy_id
        /\ db[entity_type][i].last_sync_at = 0})

get_sync_status(pharmacy_id) ==
    LET pending_products  == Pending("products", pharmacy_id)
        pending_sales     == Pending("sales", pharmacy_id)
        pending_customers == Pending("customers", pharmacy_id)
    IN [pharmacy_id  |-> pharmacy_id,
        last_sync_at |-> pharmacy_last_sync_at[pharmacy_id],
        pending_sync |-> [products  |-> pending_products,
                          sales     |-> pending_sales,
                          customers |-> pending_customers,
                          total     |-> pending_products + pending_sales
                                            + pending_customers],
        is_synced    |-> (pending_products + pending_sales + pending_customers) = 0]

(* C24: for every entity type of the status report, the pending count is the  *)
(* number of the tenant's rows with last_sync_at null or updated_at later     *)
(* than the stored baseline, and is_synced holds exactly when they are all 0. *)
C24_PendingIsTheNextChangeSet ==
    \A pharmacy_id \in Tenants :
        LET status == get_sync_status(pharmacy_id)
            due(e) == Cardinality(Due(e, pharmacy_id, pharmacy_last_sync_at[pharmacy_id]))
        IN /\ \A e \in {"products", "sales", "customers"} :
                status.pending_sync[e] = due(e)
           /\ status.is_synced <=> \A e \in EntityTypes : due(e) = 0


\* SyncLog.created_at and started_at both take the server default now() of
\* the INSERT of line 39
created_at(i) == sync_logs[i].started_at

\* the rows of filter(SyncLog.pharmacy_id == current_user.pharmacy_id)
SyncLogsOf(pharmacy_id) ==
    {i \in 1..Len(sync_logs) : sync_logs[i].pharmacy_id = pharmacy_id}

\* order_by(created_at.asc()): the orders the database may return
OrderByCreatedAtAsc(ids) ==
    {s \in [1..Cardinality(ids) -> ids] :
        /\ \A a, b \in DOMAIN s : a # b => s[a] # s[b]
        /\ \A a, b \in DOMAIN s : a < b => created_at(s[a]) <= created_at(s[b])}

\* order_by(SyncLog.created_at.desc()): rows of equal created_at come in
\* either order
OrderByCreatedAtDesc(ids) ==
    {s \in [1..Cardinality(ids) -> ids] :
        /\ \A a, b \in DOMAIN s : a # b => s[a] # s[b]
        /\ \A a, b \in DOMAIN s : a < b => created_at(s[a]) >= created_at(s[b])}

\* .offset(skip).limit(limit)
OffsetLimit(s, skip, limit) ==
    LET rest == Cardinality(DOMAIN s) - skip
        n    == IF rest < limit THEN rest ELSE limit
    IN [k \in 1..n |-> s[skip + k]]

get_sync_logs_oldest_first(pharmacy_id, skip, limit) ==
    {OffsetLimit(s, skip, limit) : s \in OrderByCreatedAtAsc(SyncLogsOf(pharmacy_id))}

\* GET /sync/logs (lines 370-396) only reads: the listings it may answer,
\* each the sequence of the ids of the logs listed
get_sync_logs(pharmacy_id, skip, limit) ==
    {OffsetLimit(s, skip, limit) : s \in OrderByCreatedAtDesc(SyncLogsOf(pharmacy_id))}

\* the skip and limit parameters of the listings checked
Skips == {0, 1}
Limits == {1, 2}

(* C25: every listing of sync logs holds only logs of the calling tenant, and *)
(* of two logs it holds the one created later is listed earlier.              *)
C25_ListingOwnLogsMostRecentFirst ==
    \A pharmacy_id \in Tenants, skip \in Skips, limit \in Limits :
        \A page \in get_sync_logs(pharmacy_id, skip, limit) :
            /\ \A a \in DOMAIN page : sync_logs[page[a]].pharmacy_id = pharmacy_id
            /\ \A a, b \in DOMAIN page :
                  created_at(page[a]) > created_at(page[b]) => a < b

C25_Witness ==
    \E page \in get_sync_logs(1, 0, 2) :
        /\ DOMAIN page = 1..2
        /\ created_at(page[1]) > created_at(page[2])


(* C26: every step of a start-sync run other than its successful final commit *)
(* (the start, the upload loop, a failure of the loop or of the commit)       *)
(* leaves every entity row and every tenant's stored baseline as it was.      *)
C26_FailedRunLeavesStateUntouched ==
    [][ ( /\ runs' # runs
          /\ \A r \in 1..Len(runs) : runs'[r].status = 200 => runs[r].status = 200 )
        => /\ db' = db
           /\ pharmacy_last_sync_at' = pharmacy_last_sync_at ]_vars

\* a run that failed at its final commit, after its upload loop selected rows
C26_Witness ==
    \E r \in 1..Len(runs) :
        /\ runs[r].pc = "done"
        /\ runs[r].status = 500
        /\ runs[r].selected # {}
        /\ pharmacy_last_sync_at[runs[r].req.pharmacy_id] = 0


(* C27: the step that computes the change sets of a run and their counts      *)
(* changes no entity row, no sync log and no stored baseline.                 *)
C27_SelectionReadOnly ==
    [][ \A r \in 1..Len(runs) :
          (runs[r].pc = "upload" /\ runs'[r].pc = "finalize")
          => /\ db' = db
             /\ sync_logs' = sync_logs
             /\ pharmacy_last_sync_at' = pharmacy_last_sync_at ]_vars

\* a run whose upload loop selected rows and has not finished
C27_Witness ==
    \E r \in 1..Len(runs) :
        /\ runs[r].pc = "finalize"
        /\ runs[r].records_uploaded > 0
        /\ LogOf(r).status = "in_progress"


(* C28: an upload batch that is not answered 200 (an upsert raised, or the    *)
(* final commit violated a constraint) leaves every entity row as it was.     *)
C28_BatchAllOrNothing ==
    [][ (Len(http') > Len(http) /\ http'[Len(http')].status # 200) => db' = db ]_vars

\* a refused batch of two items whose first item alone would have been written
C28_Witness ==
    /\ http # <<>>
    /\ Last(http).status # 200
    /\ Len(Last(http).items) = 2
    /\ Last(http).entity_type \in EntityTypes
    /\ LET h     == Last(http)
           first == UploadLoop(h.entity_type, db[h.entity_type], h.pharmacy_id,
                               h.items, 1, now + 1)
       IN /\ first.raised = NULL
          /\ first.rows # db[h.entity_type]
          /\ CommitOk(h.entity_type, db[h.entity_type], first.rows)


(* C29: an upload batch of a user of tenant A leaves every row of every other *)
(* tenant in place and unchanged, and every row it adds has pharmacy_id = A.  *)
C29_UpsertTenantIsolation ==
    [][ Len(http') > Len(http) =>
          LET A == http'[Len(http')].pharmacy_id
          IN \A e \in EntityTypes :
                /\ Len(db'[e]) >= Len(db[e])
                /\ \A i \in 1..Len(db[e]) :
                      db[e][i].pharmacy_id # A => db'[e][i] = db[e][i]
                /\ \A i \in (Len(db[e]) + 1)..Len(db'[e]) :
                      db'[e][i].pharmacy_id = A ]_vars

\* a batch of tenant 2 that was accepted though its item carries the local id
\* of a row of tenant 1
C29_Witness ==
    /\ http # <<>>
    /\ Last(http).status = 200
    /\ Last(http).pharmacy_id = 2
    /\ Last(http).entity_type \in EntityTypes
    /\ LET h == Last(http)
       IN /\ Len(h.items) = 1
          /\ h.items[1].id = 1
          /\ Len(db[h.entity_type]) = 2
          /\ db[h.entity_type][1].pharmacy_id = 1
          /\ db[h.entity_type][2].pharmacy_id = 2


(* C30: no step lowers the stored baseline of a tenant: every value written   *)
(* to pharmacy.last_sync_at is at least the value it replaces.                *)
C30_BaselineNeverDecreases ==
    [][ \A pharmacy_id \in Tenants :
          pharmacy_last_sync_at'[pharmacy_id] >= pharmacy_last_sync_at[pharmacy_id] ]_vars

====
